---- MODULE Spec2Model ----
(***************************************************************************)
(* ExchangeRateConversion (hummingbot/core/utils/exchange_rate_conversion) *)
(* as a state machine: the class-level configuration and rate cache, the   *)
(* single shared instance with its polling task, the registered data       *)
(* feeds, and the conversion API.                                          *)
(*                                                                         *)
(* Encodings.  A Python dict is a TLA+ function whose domain is the key    *)
(* set (a missing key is a missing domain element); a dict or list whose   *)
(* order matters is a sequence of <<key, value>> pairs.  Floats are the    *)
(* naturals, with NaN a value of its own; a quotient is kept as the pair   *)
(* <<numerator, denominator>>.  None is NoneV, Some(v) anything else.      *)
(***************************************************************************)
EXTENDS Integers, Sequences, FiniteSets, TLC

VARIABLES
    global_config_map,          \* the raw lists of the client configuration
    exchange_rate_config_override,
    data_feeds_override,
    data_feeds,                 \* cls._data_feeds
    exchange_rate_config,       \* cls._exchange_rate_config
    exchange_rate,              \* cls._exchange_rate  (MergedRates)
    all_data_feed_exchange_rate,\* cls._all_data_feed_exchange_rate
    ready_notifier,             \* cls._ready_notifier is set
    show_update_errors,         \* _show_update_exchange_rates_from_data_feeds_errors
    show_wait_till_ready_errors,
    wait_till_ready_warnings,   \* "Error initializing data feed" warnings logged
    no_data_found_reports,      \* "No data found" reports logged
    erc_shared_instance,        \* the shared instance exists
    started,                    \* self._started
    fetch_exchange_rate_task,   \* self._fetch_exchange_rate_task: 0 (None) or a task
    tasks,                      \* every task ensure_future has created
    feed_started,               \* data feed -> its started flag
    price_dict,                 \* data feed -> its current price map
    ret                         \* the last API call and what it returned or raised

cfgVars   == <<exchange_rate_config_override, data_feeds_override, data_feeds,
               exchange_rate_config, exchange_rate>>
flagVars  == <<ready_notifier, show_update_errors, show_wait_till_ready_errors,
               wait_till_ready_warnings, no_data_found_reports>>
lifeVars  == <<started, fetch_exchange_rate_task, tasks, feed_started>>
vars == <<global_config_map, exchange_rate_config_override, data_feeds_override,
          data_feeds, exchange_rate_config, exchange_rate,
          all_data_feed_exchange_rate, ready_notifier, show_update_errors,
          show_wait_till_ready_errors, wait_till_ready_warnings,
          no_data_found_reports, erc_shared_instance, started,
          fetch_exchange_rate_task, tasks, feed_started, price_dict, ret>>

----------------------------------------------------------------------------
(* Bounds of the model. *)

\* ensure_future is called at most this many times in a behaviour.
MaxTasks == 2

----------------------------------------------------------------------------
(* Values. *)

NaN == -1

NoneV == [none |-> TRUE]
Some(x) == [none |-> FALSE, v |-> x]

\* source: str = None, the omitted argument
NoSource == "<None>"

DEFAULT_DATA_FEED_NAME == "coin_gecko_api"

isnan(x) == x = NaN

\* float * float
fmul(a, b) == IF isnan(a) \/ isnan(b) THEN NaN ELSE a * b

\* str.upper() on the asset names of the model
upper(s) ==
    CASE s = "btc"  -> "BTC"
      [] s = "usdt" -> "USDT"
      [] s = "eth"  -> "ETH"
      [] s = "weth" -> "WETH"
      [] OTHER      -> s

\* str.lower() on the source names of the model
lower(s) ==
    CASE s = "COIN_GECKO_API" -> "coin_gecko_api"
      [] s = "CoinCap_API"    -> "coincap_api"
      [] OTHER                -> s

EmptyDict == <<>>

\* d[k] = v on an insertion-ordered dict: a present key keeps its place
Put(d, k, v) ==
    IF \E i \in DOMAIN d : d[i][1] = k
    THEN [i \in DOMAIN d |-> IF d[i][1] = k THEN <<k, v>> ELSE d[i]]
    ELSE Append(d, <<k, v>>)

\* d.update(pairs), pair by pair
RECURSIVE Update(_, _)
Update(d, pairs) ==
    IF pairs = <<>> THEN d
    ELSE Update(Put(d, Head(pairs)[1], Head(pairs)[2]), Tail(pairs))

\* the unordered view of an ordered dict (its keys are distinct)
AsMap(d) ==
    [k \in {d[i][1] : i \in DOMAIN d} |->
        d[CHOOSE i \in DOMAIN d : d[i][1] = k][2]]

\* {k.upper(): v for k, v in d.items()}
UpperKeys(d) == Update(<<>>, [i \in DOMAIN d |-> <<upper(d[i][1]), d[i][2]>>])

\* dict.get(key, {}) on the override
GetOr(d, key) == IF key \in DOMAIN d THEN d[key] ELSE EmptyDict

----------------------------------------------------------------------------
(* The data feeds (external collaborators) and the inputs of the model. *)

Feeds == {"cc", "cg"}

\* DataFeedBase.name
FeedName(f) == IF f = "cc" THEN "coincap_api" ELSE "coin_gecko_api"

\* [CoinCapDataFeed.get_instance(), CoinGeckoDataFeed.get_instance()]
DefaultDataFeeds == <<"cc", "cg">>

\* the lists handed to set_data_feeds
FeedLists == << <<"cg">> >>

\* the price maps CoinGecko may report: nothing for BTC and a price of 0 for
\* USDT, or a price for both
PriceDicts == << [USDT |-> 0], [BTC |-> 2, USDT |-> 3] >>

\* the price map CoinCap reports throughout
CoinCapPrices == [BTC |-> 3, USDT |-> 0]

\* what global_config_map may hold: nothing yet; two fetch-only assets and an
\* asset in both lists with different sources; an entry of wrong arity
RawConfigs == <<
    [fetcher |-> <<>>, conversion |-> <<>>],
    [fetcher |-> << <<"BTC", "coin_gecko_api">>, <<"usdt", "coincap_api">>,
                    <<"eth", "coin_gecko_api">> >>,
     conversion |-> << <<"usdt", 1, "COIN_GECKO_API">> >>],
    [fetcher |-> << <<"BTC">> >>, conversion |-> <<>>] >>

\* the dicts handed to set_global_exchange_rate_config: the two mappings in
\* conflict on USDT; an entry without "default"
OverrideConfigs == <<
    [conversion_required |->
        << <<"usdt", [default |-> 1, source |-> "COIN_GECKO_API"]>> >>,
     global_config |->
        << <<"BTC", [default |-> NaN, source |-> "coincap_api"]>>,
           <<"USDT", [default |-> 2, source |-> "coincap_api"]>> >>],
    [conversion_required |->
        << <<"BTC", [default |-> 2, source |-> "coin_gecko_api"]>> >>,
     global_config |->
        << <<"ETH", [source |-> "coin_gecko_api"]>> >>] >>

----------------------------------------------------------------------------
(* Config resolution: init_config. *)

\* {e[0]: {"default": e[1], "source": e[2]} for e in rate_conversion_config}
RawConversionRequired(list) ==
    Update(<<>>, [i \in DOMAIN list |->
        <<list[i][1], [default |-> list[i][2], source |-> list[i][3]]>>])

\* {e[0]: {"default": NaN, "source": e[1]} for e in fetcher_global_config}
RawGlobalConfig(list) ==
    Update(<<>>, [i \in DOMAIN list |->
        <<list[i][1], [default |-> NaN, source |-> list[i][2]]>>])

\* an entry too short for e[1] or e[2]: IndexError
RawRaises(raw) ==
    \/ \E i \in DOMAIN raw.conversion : Len(raw.conversion[i]) < 3
    \/ \E i \in DOMAIN raw.fetcher : Len(raw.fetcher[i]) < 2

\* {**conversion_required, **global_config}: the overlay the wrong way round
MergeConfigGlobalWins(g, c) == AsMap(Update(c, g))

\* {**global_config, **conversion_required}
MergeConfig(g, c) == AsMap(Update(g, c))

\* the dict assigned to cls._exchange_rate_config
ResolveConfig(raw, ov) ==
    LET c0 == IF ov.none THEN RawConversionRequired(raw.conversion)
              ELSE GetOr(ov.v, "conversion_required")
        g0 == IF ov.none THEN RawGlobalConfig(raw.fetcher)
              ELSE GetOr(ov.v, "global_config")
        g == UpperKeys(g0)
        c == UpperKeys(c0)
    IN  [conversion_required |-> AsMap(c), global_config |-> MergeConfig(g, c)]

\* an exception before cls._exchange_rate_config is assigned
ResolveRaises(raw, ov) == ov.none /\ RawRaises(raw)

\* cls._exchange_rate.update(...): the table updated, not replaced
DefaultRatesKeepingOld(config) ==
    [k \in DOMAIN config.global_config |->
        IF k \in DOMAIN exchange_rate THEN exchange_rate[k]
        ELSE config.global_config[k].default]

\* {k: v["default"] for k, v in global_config.items()}
DefaultRates(config) ==
    [k \in DOMAIN config.global_config |-> config.global_config[k].default]

\* v["default"] on an entry without that key: KeyError
DefaultRatesRaises(config) ==
    \E k \in DOMAIN config.global_config :
        "default" \notin DOMAIN config.global_config[k]

\* init_config, with the overrides in force when it runs.  The except clause
\* only logs, so whatever was assigned before the exception stays assigned.
init_config(ovConfig, ovFeeds) ==
    /\ data_feeds' = IF ovFeeds.none THEN DefaultDataFeeds ELSE ovFeeds.v
    /\ IF ResolveRaises(global_config_map, ovConfig)
       THEN UNCHANGED <<exchange_rate_config, exchange_rate>>
       ELSE LET config == ResolveConfig(global_config_map, ovConfig)
            IN  /\ exchange_rate_config' = config
                /\ IF DefaultRatesRaises(config)
                   THEN UNCHANGED exchange_rate
                   ELSE exchange_rate' = DefaultRates(config)

\* init_config ran to its last statement
InitConfigSucceeds(ovConfig) ==
    /\ ~ResolveRaises(global_config_map, ovConfig)
    /\ ~DefaultRatesRaises(ResolveConfig(global_config_map, ovConfig))

NoRet == [op |-> "none"]

\* the configuration subsystem loads the raw lists, once
LoadGlobalConfigMap(i) ==
    /\ ret = NoRet
    /\ global_config_map = RawConfigs[1]
    /\ i # 1
    /\ global_config_map' = RawConfigs[i]
    /\ ret' = NoRet
    /\ UNCHANGED <<cfgVars, all_data_feed_exchange_rate, flagVars,
                   erc_shared_instance, lifeVars, price_dict>>

\* get_instance, and __init__ on the first call
get_instance ==
    /\ ret = NoRet
    /\ IF ~erc_shared_instance
       THEN /\ erc_shared_instance' = TRUE
            /\ fetch_exchange_rate_task' = 0
            /\ init_config(exchange_rate_config_override, data_feeds_override)
       ELSE /\ UNCHANGED <<erc_shared_instance, fetch_exchange_rate_task>>
            /\ IF DOMAIN exchange_rate_config.global_config = {}
               THEN init_config(exchange_rate_config_override, data_feeds_override)
               ELSE UNCHANGED <<data_feeds, exchange_rate_config, exchange_rate>>
    /\ ret' = NoRet
    /\ UNCHANGED <<global_config_map, exchange_rate_config_override,
                   data_feeds_override, all_data_feed_exchange_rate, flagVars,
                   started, tasks, feed_started, price_dict>>

set_global_exchange_rate_config(config) ==
    /\ ret = NoRet
    /\ exchange_rate_config_override' = Some(config)
    /\ init_config(Some(config), data_feeds_override)
    /\ ret' = NoRet
    /\ UNCHANGED <<global_config_map, data_feeds_override,
                   all_data_feed_exchange_rate, flagVars, erc_shared_instance,
                   lifeVars, price_dict>>

set_data_feeds(feeds) ==
    /\ ret = NoRet
    /\ data_feeds_override' = Some(feeds)
    /\ init_config(exchange_rate_config_override, Some(feeds))
    /\ ret' = NoRet
    /\ UNCHANGED <<global_config_map, exchange_rate_config_override,
                   all_data_feed_exchange_rate, flagVars, erc_shared_instance,
                   lifeVars, price_dict>>

\* CoinGecko's own polling changes the prices it reports
FeedReports(i) ==
    /\ ret = NoRet
    /\ price_dict["cg"] # PriceDicts[i]
    /\ price_dict' = [price_dict EXCEPT !["cg"] = PriceDicts[i]]
    /\ ret' = NoRet
    /\ UNCHANGED <<global_config_map, cfgVars, all_data_feed_exchange_rate,
                   flagVars, erc_shared_instance, lifeVars>>

----------------------------------------------------------------------------
(* Lifecycle: start, stop, and the polling task. *)

Range(seq) == {seq[i] : i \in DOMAIN seq}

\* a task is pending until it is done; cancel() on a pending task leaves it
\* pending (cancelling) until the event loop throws CancelledError into it
NewTask == [st |-> "pending", pc |-> "new", i |-> 0, list |-> "none"]

Sleeping == [st |-> "pending", pc |-> "sleep", i |-> 0, list |-> "none"]

\* cancel() on a task: it stays at its suspension point until CancelledError is
\* thrown into it there
Cancelling(t) == [st |-> "cancelling", pc |-> t.pc, i |-> 0, list |-> "none"]

\* a task that has ended: where its coroutine stood no longer matters
Done == [st |-> "done", pc |-> "end", i |-> 0, list |-> "none"]

Live(t) == t.st = "pending"

\* for data_feed in self._data_feeds: data_feed.stop()
stop_feeds(fs) == [f \in Feeds |-> IF f \in Range(data_feeds) THEN FALSE ELSE fs[f]]

\* stop() without the cancel
stop_task_no_cancel(ts) == ts

\* if self._fetch_exchange_rate_task and not task.done(): task.cancel()
stop_task(ts) ==
    IF fetch_exchange_rate_task # 0 /\ ts[fetch_exchange_rate_task].st # "done"
    THEN [ts EXCEPT ![fetch_exchange_rate_task] = Cancelling(ts[fetch_exchange_rate_task])]
    ELSE ts

\* for data_feed in self._data_feeds: if not data_feed.started: data_feed.start()
start_feeds(fs) == [f \in Feeds |-> f \in Range(data_feeds) \/ fs[f]]

\* the body of stop()
StopEffect ==
    /\ feed_started' = stop_feeds(feed_started)
    /\ tasks' = stop_task(tasks)
    /\ started' = FALSE
    /\ UNCHANGED fetch_exchange_rate_task

\* the body of start(): stop(), the feeds, a new task
StartEffect ==
    /\ feed_started' = start_feeds(stop_feeds(feed_started))
    /\ tasks' = Append(stop_task(tasks), NewTask)
    /\ fetch_exchange_rate_task' = Len(tasks) + 1
    /\ started' = TRUE

CanStart == Len(tasks) < MaxTasks

start ==
    /\ ret = NoRet
    /\ erc_shared_instance
    /\ CanStart
    /\ StartEffect
    /\ ret' = NoRet
    /\ UNCHANGED <<global_config_map, cfgVars, all_data_feed_exchange_rate,
                   flagVars, erc_shared_instance, price_dict>>

stop ==
    /\ ret = NoRet
    /\ erc_shared_instance
    /\ StopEffect
    /\ ret' = NoRet
    /\ UNCHANGED <<global_config_map, cfgVars, all_data_feed_exchange_rate,
                   flagVars, erc_shared_instance, price_dict>>

----------------------------------------------------------------------------
(* Refresh: update_exchange_rates_from_data_feeds. *)

\* data_feed.get_price(asset): the price, or None
get_price(f, asset) ==
    IF asset \in DOMAIN price_dict[f] THEN Some(price_dict[f][asset]) ELSE NoneV

\* "if price:": None and 0.0 are false
Truthy(p) == ~p.none /\ p.v # 0

\* a refresh that takes an asset's price from whichever feed is at hand
SourceMatchesAny(config, f) == TRUE

\* config["source"].lower() == source_name.lower()
SourceMatches(config, f) == lower(config.source) = lower(FeedName(f))

\* self._all_data_feed_exchange_rate[data_feed.name] = data_feed.price_dict,
\* for the first n feeds of the list
RECURSIVE StoreSnapshots(_, _, _)
StoreSnapshots(all, feeds, n) ==
    IF n = 0 \/ feeds = <<>> THEN all
    ELSE StoreSnapshots((FeedName(Head(feeds)) :> price_dict[Head(feeds)]) @@ all,
                        Tail(feeds), n - 1)

\* the inner loop over global_config for one data feed
UpdateFromFeed(rates, f) ==
    LET gc == exchange_rate_config.global_config
        found == {a \in DOMAIN gc :
                    SourceMatches(gc[a], f) /\ Truthy(get_price(f, upper(a)))}
    IN  [a \in DOMAIN rates \cup {upper(x) : x \in found} |->
            IF \E x \in found : upper(x) = a
            THEN get_price(f, a).v
            ELSE rates[a]]

\* the second loop over self._data_feeds
RECURSIVE UpdateRates(_, _)
UpdateRates(rates, feeds) ==
    IF feeds = <<>> THEN rates
    ELSE UpdateRates(UpdateFromFeed(rates, Head(feeds)), Tail(feeds))

\* the lookups of the second loop that find no price
Misses(feeds) ==
    {<<i, a>> \in (DOMAIN feeds) \X (DOMAIN exchange_rate_config.global_config) :
        /\ SourceMatches(exchange_rate_config.global_config[a], feeds[i])
        /\ ~Truthy(get_price(feeds[i], upper(a)))}

\* has_errors
HasErrors(feeds) == Misses(feeds) # {}

\* the flag is tested at every miss and cleared once, after the loops
ReportMisses(feeds) ==
    /\ no_data_found_reports' = no_data_found_reports +
            IF show_update_errors THEN Cardinality(Misses(feeds)) ELSE 0
    /\ show_update_errors' = (show_update_errors /\ ~HasErrors(feeds))

\* update_exchange_rates_from_data_feeds.  failAt = 0: no feed fails; failAt = n:
\* the n-th feed raises when its price_dict is read, and the exception leaves
\* the function
Refresh(failAt) ==
    IF failAt = 0
    THEN /\ all_data_feed_exchange_rate' =
                StoreSnapshots(all_data_feed_exchange_rate, data_feeds, Len(data_feeds))
         /\ exchange_rate' = UpdateRates(exchange_rate, data_feeds)
         /\ ReportMisses(data_feeds)
    ELSE /\ all_data_feed_exchange_rate' =
                StoreSnapshots(all_data_feed_exchange_rate, data_feeds, failAt - 1)
         /\ UNCHANGED <<exchange_rate, show_update_errors, no_data_found_reports>>

----------------------------------------------------------------------------
(* The polling task: request_loop and wait_till_ready. *)

\* the list object the for loop of wait_till_ready iterates
IterList(t) ==
    IF t.list = "default" THEN DefaultDataFeeds
    ELSE IF data_feeds_override.none THEN <<>> ELSE data_feeds_override.v

\* the list object cls._data_feeds names
CurrentList == IF data_feeds_override.none THEN "default" ELSE "override"

WaitOutcomes == {"ready", "timeout", "error"}

\* self._ready_notifier.set() reached whatever the refresh did
SetReadyAlways(failAt) == TRUE

\* self._ready_notifier.set(), reached only if the refresh did not raise
SetReady(failAt) == ready_notifier \/ failAt = 0

\* wait_till_ready has gone through its list: refresh, signal, sleep
RefreshAndSleep(k, t, failAt) ==
    /\ failAt \in 0..Len(data_feeds)
    /\ Refresh(failAt)
    /\ ready_notifier' = SetReady(failAt)
    /\ tasks' = [tasks EXCEPT ![k] = Sleeping]

\* the for loop of wait_till_ready moves on to index i
NextWait(k, t, i, failAt) ==
    IF i <= Len(IterList(t))
    THEN /\ failAt = 0
         /\ tasks' = [tasks EXCEPT ![k] = [t EXCEPT !.pc = "wait", !.i = i]]
         /\ UNCHANGED <<exchange_rate, all_data_feed_exchange_rate,
                        ready_notifier, show_update_errors, no_data_found_reports>>
    ELSE RefreshAndSleep(k, t, failAt)

\* except asyncio.TimeoutError: the warning, with the flag cleared only there
wait_till_ready_timeout_unflagged ==
    /\ wait_till_ready_warnings' = wait_till_ready_warnings + 1
    /\ UNCHANGED show_wait_till_ready_errors

\* except asyncio.TimeoutError: the warning and the flag, if the flag is set
wait_till_ready_timeout ==
    /\ wait_till_ready_warnings' = wait_till_ready_warnings +
            IF show_wait_till_ready_errors THEN 1 ELSE 0
    /\ show_wait_till_ready_errors' = FALSE

\* the task runs from one suspension point to the next
LoopStep(k, outcome, failAt) ==
    /\ ret = NoRet
    /\ k \in DOMAIN tasks
    /\ tasks[k].st = "pending"
    /\ IF tasks[k].pc \in {"new", "sleep"}
       THEN \* a cycle begins: wait_till_ready takes the list
            /\ outcome = "ready"
            /\ NextWait(k, [tasks[k] EXCEPT !.list = CurrentList], 1, failAt)
            /\ UNCHANGED <<show_wait_till_ready_errors, wait_till_ready_warnings>>
       ELSE \* asyncio.wait_for(data_feed.get_ready(), timeout) returns or raises
            CASE outcome = "ready" ->
                    /\ NextWait(k, tasks[k], tasks[k].i + 1, failAt)
                    /\ UNCHANGED <<show_wait_till_ready_errors, wait_till_ready_warnings>>
              [] outcome = "timeout" ->
                    /\ NextWait(k, tasks[k], tasks[k].i + 1, failAt)
                    /\ wait_till_ready_timeout
              [] OTHER ->
                    /\ failAt = 0
                    /\ tasks' = [tasks EXCEPT ![k] = Sleeping]
                    /\ UNCHANGED <<exchange_rate, all_data_feed_exchange_rate,
                                   flagVars>>
    /\ ret' = NoRet
    /\ UNCHANGED <<global_config_map, exchange_rate_config_override,
                   data_feeds_override, data_feeds, exchange_rate_config,
                   erc_shared_instance, started, fetch_exchange_rate_task,
                   feed_started, price_dict>>

\* CancelledError caught by "except Exception": logged, and on to the sleep
on_cancelled_caught(t) == Sleeping

\* CancelledError at a suspension point of the task: in wait_for it is no
\* TimeoutError, in the try of request_loop it is re-raised, at the sleep (or
\* before the first step) nothing catches it
on_cancelled(t) == Done

\* the event loop throws CancelledError into a cancelled task, which ends it
DeliverCancel(k) ==
    /\ ret = NoRet
    /\ k \in DOMAIN tasks
    /\ tasks[k].st = "cancelling"
    /\ tasks' = [tasks EXCEPT ![k] = on_cancelled(tasks[k])]
    /\ ret' = NoRet
    /\ UNCHANGED <<global_config_map, cfgVars, all_data_feed_exchange_rate,
                   flagVars, erc_shared_instance, started,
                   fetch_exchange_rate_task, feed_started, price_dict>>

----------------------------------------------------------------------------
(* The conversion API. *)

Value(x) == [raised |-> FALSE, value |-> x]
Raise(e) == [raised |-> TRUE, exc |-> e]

\* the arguments the API is called with
Sources == {NoSource, "default", "config", "coincap_api"}
AdjustAssets == {"usdt", "BTC"}
ConvertPairs == {<<"eth", "WETH">>, <<"WETH", "ETH">>, <<"btc", "USDT">>}
Price == 2

\* get_exchange_rate falling back to the merged table for an unknown source
get_exchange_rate_fallback(source) ==
    IF source = "default" /\ DEFAULT_DATA_FEED_NAME \in DOMAIN all_data_feed_exchange_rate
    THEN Value(all_data_feed_exchange_rate[DEFAULT_DATA_FEED_NAME])
    ELSE IF source \in DOMAIN all_data_feed_exchange_rate
    THEN Value(all_data_feed_exchange_rate[source])
    ELSE Value(exchange_rate)

get_exchange_rate(source) ==
    IF source = "default"
    THEN IF DEFAULT_DATA_FEED_NAME \notin DOMAIN all_data_feed_exchange_rate
         THEN Raise("Data feed name not valid.")
         ELSE Value(all_data_feed_exchange_rate[DEFAULT_DATA_FEED_NAME])
    ELSE IF source \in DOMAIN all_data_feed_exchange_rate
    THEN Value(all_data_feed_exchange_rate[source])
    ELSE IF source = "config"
    THEN Value(exchange_rate)
    ELSE Raise("Source name for exchange rate is not valid.")

\* adjust_token_rate after its lazy start
adjust_token_rate(asset_name, price, source) ==
    LET asset == upper(asset_name)
        rate == get_exchange_rate(source)
    IN  IF rate.raised THEN rate
        ELSE IF /\ asset \in DOMAIN exchange_rate_config.conversion_required
                /\ asset \in DOMAIN exchange_rate
        THEN IF asset \in DOMAIN rate.value
             THEN Value(fmul(rate.value[asset], price))
             ELSE Raise("KeyError")
        ELSE Value(price)

\* exchange_rate.get(currency, 1.0): a substituted default
GetRateOrOne(table, currency) == IF currency \in DOMAIN table THEN table[currency] ELSE 1

\* exchange_rate.get(currency, NaN)
GetRate(table, currency) == IF currency \in DOMAIN table THEN table[currency] ELSE NaN

\* amount * from_rate / to_rate on floats: the quotient, or ZeroDivisionError
fmuldiv(amount, from_rate, to_rate) ==
    IF to_rate = 0 THEN Raise("ZeroDivisionError")
    ELSE Value(<<amount * from_rate, to_rate>>)

\* convert_token_value after its lazy start
convert_token_value(amount, from_currency, to_currency, source) ==
    LET rate == get_exchange_rate(source)
        from == upper(from_currency)
        to == upper(to_currency)
    IN  IF rate.raised THEN rate
        ELSE IF (from = "ETH" /\ to = "WETH") \/ (from = "WETH" /\ to = "ETH")
        THEN Value(amount)
        ELSE IF isnan(GetRate(rate.value, from)) \/ isnan(GetRate(rate.value, to))
        THEN Raise("ValueError")
        ELSE fmuldiv(amount, GetRate(rate.value, from), GetRate(rate.value, to))

\* if not self._started: self.start()
LazyStart ==
    /\ erc_shared_instance
    /\ started \/ CanStart
    /\ IF started THEN UNCHANGED lifeVars ELSE StartEffect

GetExchangeRate(source) ==
    /\ ret = NoRet
    /\ erc_shared_instance
    /\ ret' = [op |-> "get_exchange_rate", source |-> source,
               res |-> get_exchange_rate(source)]
    /\ UNCHANGED <<global_config_map, cfgVars, all_data_feed_exchange_rate,
                   flagVars, erc_shared_instance, lifeVars, price_dict>>

AdjustTokenRate(asset, price, source) ==
    /\ ret = NoRet
    /\ LazyStart
    /\ ret' = [op |-> "adjust_token_rate", asset |-> asset, price |-> price,
               source |-> source, res |-> adjust_token_rate(asset, price, source)]
    /\ UNCHANGED <<global_config_map, cfgVars, all_data_feed_exchange_rate,
                   flagVars, erc_shared_instance, price_dict>>

ConvertTokenValue(amount, from, to, source) ==
    /\ ret = NoRet
    /\ LazyStart
    /\ ret' = [op |-> "convert_token_value", amount |-> amount, from |-> from,
               to |-> to, source |-> source,
               res |-> convert_token_value(amount, from, to, source)]
    /\ UNCHANGED <<global_config_map, cfgVars, all_data_feed_exchange_rate,
                   flagVars, erc_shared_instance, price_dict>>

\* the call returns or raises to its caller
Return ==
    /\ ret # NoRet
    /\ ret' = NoRet
    /\ UNCHANGED <<global_config_map, cfgVars, all_data_feed_exchange_rate,
                   flagVars, erc_shared_instance, lifeVars, price_dict>>

----------------------------------------------------------------------------
(* The specifications. *)

\* the class as defined, before any instance exists
Init ==
    /\ global_config_map = RawConfigs[1]
    /\ exchange_rate_config_override = NoneV
    /\ data_feeds_override = NoneV
    /\ data_feeds = <<>>
    /\ exchange_rate_config = [conversion_required |-> <<>>, global_config |-> <<>>]
    /\ exchange_rate = <<>>
    /\ all_data_feed_exchange_rate = <<>>
    /\ ready_notifier = FALSE
    /\ show_update_errors = TRUE
    /\ show_wait_till_ready_errors = TRUE
    /\ wait_till_ready_warnings = 0
    /\ no_data_found_reports = 0
    /\ erc_shared_instance = FALSE
    /\ started = FALSE
    /\ fetch_exchange_rate_task = 0
    /\ tasks = <<>>
    /\ feed_started = [f \in Feeds |-> FALSE]
    /\ price_dict = [f \in Feeds |-> IF f = "cc" THEN CoinCapPrices ELSE PriceDicts[1]]
    /\ ret = NoRet

Environment ==
    \/ \E i \in DOMAIN RawConfigs : LoadGlobalConfigMap(i)
    \/ \E i \in DOMAIN PriceDicts : FeedReports(i)

Configure ==
    \/ get_instance
    \/ \E i \in DOMAIN OverrideConfigs : set_global_exchange_rate_config(OverrideConfigs[i])
    \/ \E i \in DOMAIN FeedLists : set_data_feeds(FeedLists[i])

Lifecycle ==
    \/ start
    \/ stop
    \/ \E k \in 1..MaxTasks : \E o \in WaitOutcomes : \E n \in 0..Cardinality(Feeds) :
            LoopStep(k, o, n)
    \/ \E k \in 1..MaxTasks : DeliverCancel(k)

Core == Environment \/ Configure \/ Lifecycle

CallGet == \E s \in Sources \cup {"unknownSource"} : GetExchangeRate(s)

CallAdjust == \E a \in AdjustAssets : \E s \in Sources : AdjustTokenRate(a, Price, s)

CallConvert ==
    \E p \in ConvertPairs : \E s \in Sources : ConvertTokenValue(Price, p[1], p[2], s)

Next == Core \/ CallGet \/ CallAdjust \/ CallConvert \/ Return

\* every operation
Spec == Init /\ [][Next]_vars

\* the operations without the API calls
SpecCore == Init /\ [][Core]_vars

\* the event loop runs every task that can run: a readiness wait ends within
\* its timeout, a sleep ends, a cancellation is delivered
PollingFairness ==
    \A k \in 1..MaxTasks :
        /\ WF_vars(\E o \in WaitOutcomes : \E n \in 0..Cardinality(Feeds) :
                        LoopStep(k, o, n))
        /\ WF_vars(DeliverCancel(k))

\* the operations without the API calls, the polling tasks scheduled fairly
SpecLive == Init /\ [][Core]_vars /\ PollingFairness

\* the operations but for two of the three API calls
SpecGet == Init /\ [][Core \/ CallGet \/ Return]_vars
SpecAdjust == Init /\ [][Core \/ CallAdjust \/ Return]_vars
SpecConvert == Init /\ [][Core \/ CallConvert \/ Return]_vars

----------------------------------------------------------------------------
(* The claims. *)

ConversionRequired == exchange_rate_config.conversion_required
GlobalConfig == exchange_rate_config.global_config

\* the specification's resolution of a source: MergedRates for "config", the
\* provider's snapshot for a provider name or "default"
SourceResolves(source) ==
    \/ source = "config"
    \/ source \in DOMAIN all_data_feed_exchange_rate
    \/ /\ source = "default"
       /\ DEFAULT_DATA_FEED_NAME \in DOMAIN all_data_feed_exchange_rate

ResolvedTable(source) ==
    IF source = "default" THEN all_data_feed_exchange_rate[DEFAULT_DATA_FEED_NAME]
    ELSE IF source \in DOMAIN all_data_feed_exchange_rate
    THEN all_data_feed_exchange_rate[source]
    ELSE exchange_rate

\* a rate of a table, NaN for an asset the table does not have
RateIn(table, asset) == IF asset \in DOMAIN table THEN table[asset] ELSE NaN

EthWethPair(from, to) == {upper(from), upper(to)} = {"ETH", "WETH"}

\* the step is a run of init_config that reached its last statement
ResolutionSucceeded ==
    \/ /\ get_instance
       /\ ~erc_shared_instance \/ DOMAIN GlobalConfig = {}
       /\ InitConfigSucceeds(exchange_rate_config_override)
    \/ \E i \in DOMAIN OverrideConfigs :
        /\ set_global_exchange_rate_config(OverrideConfigs[i])
        /\ InitConfigSucceeds(Some(OverrideConfigs[i]))
    \/ \E i \in DOMAIN FeedLists :
        /\ set_data_feeds(FeedLists[i])
        /\ InitConfigSucceeds(exchange_rate_config_override)

\* a step LoopStep(k, outcome, _) from this state runs the refresh
RefreshRuns(k, outcome) ==
    /\ k \in DOMAIN tasks
    /\ tasks[k].st = "pending"
    /\ IF tasks[k].pc \in {"new", "sleep"}
       THEN Len(IterList([tasks[k] EXCEPT !.list = CurrentList])) = 0
       ELSE /\ outcome \in {"ready", "timeout"}
            /\ tasks[k].i + 1 > Len(IterList(tasks[k]))

\* the step is a refresh that no feed failed
RefreshCompleted ==
    \E k \in DOMAIN tasks : \E o \in WaitOutcomes :
        RefreshRuns(k, o) /\ LoopStep(k, o, 0)

LiveTasks == {k \in DOMAIN tasks : Live(tasks[k])}

(* C1: adjust_token_rate(asset, price), called without a source, returns    *)
(* price unchanged and raises nothing when the upper-cased asset is not a   *)
(* key of conversion_required.                                              *)
C1_PassThroughSourceOmitted ==
    ( /\ ret.op = "adjust_token_rate"
      /\ ret.source = NoSource
      /\ upper(ret.asset) \notin DOMAIN ConversionRequired )
    => ret.res = Value(ret.price)

(* C2: convert_token_value(x, ETH, WETH) and (x, WETH, ETH), in any letter  *)
(* case, with the source omitted or "config", return x whatever the rate    *)
(* tables hold.                                                             *)
C2_EthWethIdentity ==
    ( /\ ret.op = "convert_token_value"
      /\ ret.source \in {NoSource, "config"}
      /\ EthWethPair(ret.from, ret.to) )
    => ret.res = Value(ret.amount)

(* C3, as claimed: convert_token_value on the merged rates ("config")       *)
(* raises the conversion error whenever either asset's merged rate is NaN   *)
(* or absent, and returns amount * rateFrom / rateTo when both are known.   *)
C3_AsClaimed ==
    (ret.op = "convert_token_value" /\ ret.source = "config") =>
        LET from == RateIn(exchange_rate, upper(ret.from))
            to == RateIn(exchange_rate, upper(ret.to))
        IN  IF isnan(from) \/ isnan(to)
            THEN ret.res = Raise("ValueError")
            ELSE ret.res = Value(<<ret.amount * from, to>>)

(* C3, amended: with a source that resolves to a rate table, the ETH/WETH   *)
(* pair returns amount; any other pair raises the conversion error when     *)
(* either asset's rate in that table is NaN or absent (no default is        *)
(* substituted), raises ZeroDivisionError when rateTo is 0, and otherwise   *)
(* returns amount * rateFrom / rateTo.                                      *)
C3_ConversionErrorOnNaN ==
    (ret.op = "convert_token_value" /\ SourceResolves(ret.source)) =>
        LET from == RateIn(ResolvedTable(ret.source), upper(ret.from))
            to == RateIn(ResolvedTable(ret.source), upper(ret.to))
        IN  IF EthWethPair(ret.from, ret.to) THEN ret.res = Value(ret.amount)
            ELSE IF isnan(from) \/ isnan(to) THEN ret.res = Raise("ValueError")
            ELSE IF to = 0 THEN ret.res = Raise("ZeroDivisionError")
            ELSE ret.res = Value(<<ret.amount * from, to>>)

\* a conversion on the merged rates failed because BTC's merged rate is NaN
C3_Witness ==
    /\ ret.op = "convert_token_value"
    /\ ret.source = "config"
    /\ upper(ret.from) = "BTC"
    /\ "BTC" \in DOMAIN exchange_rate
    /\ isnan(exchange_rate["BTC"])
    /\ ret.res = Raise("ValueError")

(* C4: adjust_token_rate(asset, price, source) returns price * rate[asset], *)
(* and raises nothing, whenever the upper-cased asset is a key of both      *)
(* conversion_required and the rate table the source resolves to.           *)
C4_AdjustByResolvedRate ==
    ( /\ ret.op = "adjust_token_rate"
      /\ SourceResolves(ret.source)
      /\ upper(ret.asset) \in DOMAIN ConversionRequired
      /\ upper(ret.asset) \in DOMAIN ResolvedTable(ret.source) )
    => ret.res = Value(fmul(ResolvedTable(ret.source)[upper(ret.asset)], ret.price))

\* what get_exchange_rate is to return, in the order the cases are tried
GetResolution ==
    ret.op = "get_exchange_rate" =>
        IF ret.source = "default"
        THEN IF DEFAULT_DATA_FEED_NAME \in DOMAIN all_data_feed_exchange_rate
             THEN ret.res = Value(all_data_feed_exchange_rate[DEFAULT_DATA_FEED_NAME])
             ELSE ret.res = Raise("Data feed name not valid.")
        ELSE IF ret.source \in DOMAIN all_data_feed_exchange_rate
        THEN ret.res = Value(all_data_feed_exchange_rate[ret.source])
        ELSE IF ret.source = "config"
        THEN ret.res = Value(exchange_rate)
        ELSE ret.res = Raise("Source name for exchange rate is not valid.")

(* C5: get_exchange_rate(source) returns the default provider's snapshot    *)
(* for "default" (an error if there is none), the snapshot stored under a   *)
(* provider name, MergedRates for "config", and raises the invalid-source   *)
(* error for anything else, the omitted source included; the call changes   *)
(* nothing of the configuration or the cache.                               *)
C5_GetExchangeRate ==
    [][ret'.op = "get_exchange_rate" =>
        GetResolution' /\ UNCHANGED <<cfgVars, all_data_feed_exchange_rate>>]_vars

\* Scenario C: an unknown source raised the invalid-source error
C5_Witness ==
    /\ ret.op = "get_exchange_rate"
    /\ ret.source = "unknownSource"
    /\ ret.res = Raise("Source name for exchange rate is not valid.")
    /\ DOMAIN all_data_feed_exchange_rate # {}

(* C6: every key of conversion_required is a key of global_config with the  *)
(* same entry, also when the fetch list or the override's global_config     *)
(* names another source for the asset, and every key of both is upper-case. *)
C6_ConversionRequiredWins ==
    /\ \A a \in DOMAIN ConversionRequired :
        a \in DOMAIN GlobalConfig /\ GlobalConfig[a] = ConversionRequired[a]
    /\ \A a \in DOMAIN GlobalConfig : upper(a) = a

\* the override names coincap_api for USDT in global_config and COIN_GECKO_API
\* under the key "usdt" in conversion_required, and has been resolved
C6_Witness ==
    /\ ~exchange_rate_config_override.none
    /\ exchange_rate_config_override.v = OverrideConfigs[1]
    /\ "USDT" \in DOMAIN ConversionRequired
    /\ GlobalConfig["USDT"] = [default |-> 1, source |-> "COIN_GECKO_API"]

(* C7: a successful config resolution replaces MergedRates by one entry per *)
(* asset of global_config holding its default rate (NaN for the fetch-only  *)
(* assets of the raw lists); and an entry of MergedRates changes only by    *)
(* such a resolution or by a refresh in which a registered feed matching    *)
(* the asset's source has a price for it.                                   *)
C7_DefaultsUntilRefresh ==
    [][ /\ ResolutionSucceeded =>
            /\ exchange_rate' = [a \in DOMAIN GlobalConfig' |-> GlobalConfig'[a].default]
            /\ exchange_rate_config_override'.none =>
                \A a \in DOMAIN GlobalConfig' \ DOMAIN ConversionRequired' :
                    isnan(exchange_rate'[a])
        /\ \A a \in DOMAIN exchange_rate :
            \/ a \in DOMAIN exchange_rate' /\ exchange_rate'[a] = exchange_rate[a]
            \/ ResolutionSucceeded
            \/ /\ RefreshCompleted
               /\ a \in DOMAIN GlobalConfig
               /\ \E i \in DOMAIN data_feeds :
                    /\ SourceMatches(GlobalConfig[a], data_feeds[i])
                    /\ Truthy(get_price(data_feeds[i], a)) ]_vars

\* BTC is back at its default NaN although a refresh has stored CoinGecko's
\* price for it
C7_Witness ==
    /\ "BTC" \in DOMAIN GlobalConfig
    /\ lower(GlobalConfig["BTC"].source) = "coin_gecko_api"
    /\ "BTC" \in DOMAIN exchange_rate
    /\ isnan(exchange_rate["BTC"])
    /\ "USDT" \in DOMAIN exchange_rate
    /\ exchange_rate["USDT"] = 1
    /\ "coin_gecko_api" \in DOMAIN all_data_feed_exchange_rate
    /\ all_data_feed_exchange_rate["coin_gecko_api"] = PriceDicts[2]
    /\ price_dict["cg"] = PriceDicts[2]
    /\ ready_notifier

(* C8: after a refresh, for every asset of global_config whose source is a  *)
(* registered feed's name (case-insensitively): MergedRates holds the price *)
(* the feed reports for it, a price of 0 included, and keeps its previous   *)
(* value if the feed reports none.                                          *)
C8_RefreshOverwrites ==
    [][RefreshCompleted =>
        \A a \in DOMAIN GlobalConfig : \A i \in DOMAIN data_feeds :
            SourceMatches(GlobalConfig[a], data_feeds[i]) =>
                IF a \in DOMAIN price_dict[data_feeds[i]]
                THEN /\ a \in DOMAIN exchange_rate'
                     /\ exchange_rate'[a] = price_dict[data_feeds[i]][a]
                ELSE \/ a \notin DOMAIN exchange_rate \cup DOMAIN exchange_rate'
                     \/ /\ a \in DOMAIN exchange_rate \cap DOMAIN exchange_rate'
                        /\ exchange_rate'[a] = exchange_rate[a] ]_vars

\* the step is start(), called directly or by a conversion call
StartRuns == start \/ (~started /\ (CallAdjust \/ CallConvert))

(* C9: at most one polling task is live, whatever start(), stop() and the   *)
(* lazily starting conversion calls have done; and when start() returns,    *)
(* exactly one is live, the started flag is set and every registered feed   *)
(* is running.                                                              *)
C9_StartIdempotent ==
    /\ [](Cardinality(LiveTasks) <= 1)
    /\ [][StartRuns =>
            /\ LiveTasks' = {fetch_exchange_rate_task'}
            /\ started'
            /\ \A i \in DOMAIN data_feeds' : feed_started'[data_feeds'[i]] ]_vars

\* start() has run twice: the first task is cancelled, the second is live
C9_Witness ==
    /\ started
    /\ Len(tasks) = 2
    /\ ~Live(tasks[1])
    /\ LiveTasks = {2}
    /\ fetch_exchange_rate_task = 2

(* C10: when stop() returns, no feed is running and the polling task, if    *)
(* any, is cancelled, also when the registered list was replaced since      *)
(* start(); stop() on a core never started changes nothing of the cache.    *)
C10_StopStopsEverything ==
    [][stop =>
        /\ \A f \in Feeds : ~feed_started'[f]
        /\ LiveTasks' = {}
        /\ UNCHANGED <<cfgVars, all_data_feed_exchange_rate>> ]_vars

\* the state of the k-th task, "none" before ensure_future has created it
TaskState(k) == IF k \in DOMAIN tasks THEN tasks[k].st ELSE "none"

(* C11: a cancelled polling task, whether it was cancelled before its first *)
(* step, in a readiness wait or at the sleep, does nothing more but end: it *)
(* runs no refresh, changes no flag and logs nothing, it never goes back to *)
(* waiting or sleeping as it would had the per-cycle handler caught the     *)
(* cancellation, it does end, and once ended it stays ended.                *)
C11_CancellationPropagates ==
    /\ [][\A k \in DOMAIN tasks :
            /\ tasks[k].st = "cancelling" =>
                \/ tasks'[k] = tasks[k]
                \/ /\ tasks'[k] = Done
                   /\ UNCHANGED <<exchange_rate, all_data_feed_exchange_rate, flagVars>>
            /\ tasks[k].st = "done" => tasks'[k] = Done
            /\ (stop /\ k = fetch_exchange_rate_task) => ~Live(tasks'[k]) ]_vars
    /\ \A k \in 1..MaxTasks :
            (TaskState(k) = "cancelling") ~> (TaskState(k) = "done")

\* the first task was cancelled after a refresh and has ended; the second is
\* cancelled in a readiness wait
C11_Witness ==
    /\ Len(tasks) = 2
    /\ tasks[1] = Done
    /\ ready_notifier
    /\ tasks[2].st = "cancelling"
    /\ tasks[2].pc = "wait"

\* the step is a step of the k-th polling task
TaskSteps(k) ==
    \E o \in WaitOutcomes : \E n \in 0..Cardinality(Feeds) : LoopStep(k, o, n)

(* C12: the readiness gate visits every feed of the list in order and never *)
(* raises: whether a feed became ready, timed out or failed in its          *)
(* readiness wait, the task goes on to wait for the next feed of the list.  *)
C12_GateNeverRaises ==
    [][\A k \in DOMAIN tasks :
        (Live(tasks[k]) /\ TaskSteps(k)) =>
            LET atWait == tasks[k].pc = "wait"
                i == IF atWait THEN tasks[k].i ELSE 0
                list == IF atWait THEN IterList(tasks[k]) ELSE data_feeds
            IN  i < Len(list) =>
                    /\ Live(tasks'[k])
                    /\ tasks'[k].pc = "wait"
                    /\ tasks'[k].i = i + 1 ]_vars

\* the step is a run of init_config that an exception cut short
ResolutionFailed ==
    \/ /\ get_instance
       /\ ~erc_shared_instance \/ DOMAIN GlobalConfig = {}
       /\ ~InitConfigSucceeds(exchange_rate_config_override)
    \/ \E i \in DOMAIN OverrideConfigs :
        /\ set_global_exchange_rate_config(OverrideConfigs[i])
        /\ ~InitConfigSucceeds(Some(OverrideConfigs[i]))
    \/ \E i \in DOMAIN FeedLists :
        /\ set_data_feeds(FeedLists[i])
        /\ ~InitConfigSucceeds(exchange_rate_config_override)

(* C13: a config resolution that fails, on a malformed raw list entry or an *)
(* override entry without a required field, leaves the effective config,    *)
(* MergedRates and the registered feed list as they were, so that           *)
(* MergedRates always has exactly the assets of global_config.              *)
C13_FailedResolutionKeepsState ==
    /\ [][ResolutionFailed =>
            UNCHANGED <<exchange_rate_config, exchange_rate, data_feeds>>]_vars
    /\ [](DOMAIN exchange_rate = DOMAIN GlobalConfig)

\* a list without its n-th element
Without(seq, n) ==
    [j \in 1..(Len(seq) - 1) |-> IF j < n THEN seq[j] ELSE seq[j + 1]]

\* the step is a refresh in which the n-th registered feed fails to answer
RefreshFailsAt(n) ==
    /\ n \in DOMAIN data_feeds
    /\ \E k \in DOMAIN tasks : \E o \in WaitOutcomes :
            RefreshRuns(k, o) /\ LoopStep(k, o, n)

(* C14: in a refresh in which one feed fails to answer when its price map   *)
(* is pulled, the snapshots of the other feeds are stored, the merged rates *)
(* sourced from the other feeds are updated, the failing feed keeps its     *)
(* previous snapshot, and the registered list is unchanged.                 *)
C14_FailingFeedSkipped ==
    [][\A n \in 1..Cardinality(Feeds) :
        RefreshFailsAt(n) =>
            LET failing == FeedName(data_feeds[n])
                others == Without(data_feeds, n)
            IN  /\ \A i \in DOMAIN others :
                    /\ FeedName(others[i]) \in DOMAIN all_data_feed_exchange_rate'
                    /\ all_data_feed_exchange_rate'[FeedName(others[i])] =
                            price_dict[others[i]]
                /\ exchange_rate' = UpdateRates(exchange_rate, others)
                /\ IF failing \in DOMAIN all_data_feed_exchange_rate
                   THEN /\ failing \in DOMAIN all_data_feed_exchange_rate'
                        /\ all_data_feed_exchange_rate'[failing] =
                                all_data_feed_exchange_rate[failing]
                   ELSE failing \notin DOMAIN all_data_feed_exchange_rate'
                /\ UNCHANGED data_feeds ]_vars

\* the step is the k-th task running the refresh, whether or not a feed fails
RefreshAttempt(k) ==
    \E o \in WaitOutcomes : \E n \in 0..Cardinality(Feeds) :
        RefreshRuns(k, o) /\ LoopStep(k, o, n)

(* C15: no step of a polling task that is not cancelled ends the task, an   *)
(* exception of the readiness gate or of the refresh included: the task     *)
(* goes to its sleep and begins a further cycle; hence a task that is never *)
(* cancelled attempts the refresh infinitely often.                         *)
C15_LoopSurvivesErrors ==
    /\ [][\A k \in DOMAIN tasks :
            (Live(tasks[k]) /\ TaskSteps(k)) => Live(tasks'[k])]_vars
    /\ \A k \in 1..MaxTasks :
            <>[](TaskState(k) = "pending") => []<><<RefreshAttempt(k)>>_vars

(* C16: readiness becomes set only by a polling cycle whose refresh ran to  *)
(* its end, so that readiness set implies a stored snapshot; a cycle whose  *)
(* gate or refresh raised does not set it; and once set it stays set        *)
(* through every refresh, failed cycle, config resolution, start and stop.  *)
C16_ReadyAfterFullRefresh ==
    /\ [](ready_notifier => DOMAIN all_data_feed_exchange_rate # {})
    /\ [][ /\ (~ready_notifier /\ ready_notifier') => RefreshCompleted
           /\ ready_notifier => ready_notifier' ]_vars

\* readiness was set by the first task's refresh and is still set after stop()
\* and a config resolution
C16_Witness ==
    /\ ready_notifier
    /\ ~started
    /\ Len(tasks) = 1
    /\ tasks[1] = Done
    /\ ~exchange_rate_config_override.none

(* C17: a start() that follows a stop() of an earlier run creates a new     *)
(* readiness notifier: when it returns readiness is unset, until the        *)
(* restarted loop completes its own first refresh.                          *)
C17_RestartRenewsReadiness ==
    [][(StartRuns /\ ~started /\ tasks # <<>>) => ~ready_notifier']_vars

(* C18: the readiness-timeout warning is logged at most once, over all      *)
(* feeds, cycles and restarts: a warning is logged only while the flag is   *)
(* set and clears it, and once the flag is cleared it stays cleared and no  *)
(* timeout logs a warning.                                                  *)
C18_TimeoutWarnedOnce ==
    /\ [](wait_till_ready_warnings <= 1)
    /\ [](show_wait_till_ready_errors <=> wait_till_ready_warnings = 0)
    /\ [][ /\ ~show_wait_till_ready_errors =>
                /\ ~show_wait_till_ready_errors'
                /\ wait_till_ready_warnings' = wait_till_ready_warnings
           /\ wait_till_ready_warnings' # wait_till_ready_warnings =>
                \E k \in DOMAIN tasks : \E n \in 0..Cardinality(Feeds) :
                    tasks[k].pc = "wait" /\ LoopStep(k, "timeout", n) ]_vars

\* the one warning was logged, and after a restart the second task has gone
\* through the gate and a refresh
C18_Witness ==
    /\ wait_till_ready_warnings = 1
    /\ ~show_wait_till_ready_errors
    /\ Len(tasks) = 2
    /\ tasks[1] = Done
    /\ tasks[2] = Sleeping

(* C19: the price-not-found condition is reported once: a second miss,      *)
(* whether for another asset in the same refresh or in a later cycle,       *)
(* produces no report, and the flag, once cleared by a cycle with a miss,   *)
(* is never set again.                                                      *)
C19_MissReportedOnce ==
    /\ [](no_data_found_reports <= 1)
    /\ [][~show_update_errors =>
            /\ ~show_update_errors'
            /\ no_data_found_reports' = no_data_found_reports]_vars

\* the feed bears the name a's config gives as its source, in any letter case
NamedAsSource(a, f) == lower(GlobalConfig[a].source) = lower(FeedName(f))

\* a registered feed is named as the asset's source
HasRegisteredSource(a) ==
    /\ a \in DOMAIN GlobalConfig
    /\ \E i \in DOMAIN data_feeds : NamedAsSource(a, data_feeds[i])

(* C20: a refresh changes MergedRates[a] only to a price of a registered    *)
(* feed named (in any letter case) as a's source: an asset whose source     *)
(* matches no registered feed keeps its merged rate even when a registered  *)
(* feed reports a price for it, and a refresh adds no key that is not in    *)
(* global_config.                                                           *)
C20_OnlyFromConfiguredSource ==
    [][(\E k \in DOMAIN tasks : RefreshAttempt(k)) =>
        /\ \A a \in DOMAIN exchange_rate :
            /\ a \in DOMAIN exchange_rate'
            /\ exchange_rate'[a] # exchange_rate[a] =>
                /\ HasRegisteredSource(a)
                /\ \E i \in DOMAIN data_feeds :
                    /\ NamedAsSource(a, data_feeds[i])
                    /\ a \in DOMAIN price_dict[data_feeds[i]]
                    /\ exchange_rate'[a] = price_dict[data_feeds[i]][a]
        /\ \A a \in DOMAIN exchange_rate' \ DOMAIN exchange_rate :
            HasRegisteredSource(a) ]_vars

\* BTC is sourced from coincap_api, which is not registered: after a refresh
\* of CoinGecko alone, which reports BTC and USDT, BTC keeps its default and
\* USDT has CoinGecko's price
C20_Witness ==
    /\ data_feeds = <<"cg">>
    /\ "BTC" \in DOMAIN GlobalConfig
    /\ GlobalConfig["BTC"].source = "coincap_api"
    /\ "coin_gecko_api" \in DOMAIN all_data_feed_exchange_rate
    /\ all_data_feed_exchange_rate["coin_gecko_api"] = PriceDicts[2]
    /\ price_dict["cg"] = PriceDicts[2]
    /\ "BTC" \in DOMAIN exchange_rate
    /\ isnan(exchange_rate["BTC"])
    /\ "USDT" \in DOMAIN exchange_rate
    /\ exchange_rate["USDT"] = 3

====
